---- MODULE Spec2Model ----
(***************************************************************************)
(* Model of src/main.py: the FastAPI user service over one MongoDB         *)
(* collection (create, list, get, update, delete, bulk upload).            *)
(*                                                                         *)
(* Text (names, identifiers, uploaded files) is a sequence of              *)
(* one-character strings, so that strip, int, csv.reader, ObjectId and str *)
(* are computed character by character.                                    *)
(***************************************************************************)
EXTENDS Integers, Sequences, FiniteSets, TLC

VARIABLES
    users_collection,  \* the module global: "None" before startup, "Collection" after
    docs,              \* the documents of the collection, in natural (insertion) order
    oid_counter,       \* the counter the driver draws the next ObjectId from
    request,           \* the request that arrived last
    response,          \* the response that was sent last
    pending,           \* handlers suspended at the await between their write and re-fetch
    created_ok,        \* history: POST /users/ requests answered 201
    deleted_ok,        \* history: DELETE requests answered 204
    uploaded,          \* history: documents inserted by POST /users/upload/
    deleted_ids,       \* history: the ObjectIds of the documents deleted so far
    prev_docs          \* history: the collection before the last step

vars == <<users_collection, docs, oid_counter, request, response, pending,
          created_ok, deleted_ok, uploaded, deleted_ids, prev_docs>>

---------------------------------------------------------------------------
(* Bounds of the model *)

\* ObjectIds the driver may generate in one behaviour
MaxIds == 2
\* hex digits of an ObjectId's string form (24 in bson), scaled down
OidHexLen == 2
\* handlers that may be suspended between write and re-fetch at once
MaxPending == 1

---------------------------------------------------------------------------
(* Python text primitives *)

Whitespace == {" ", "\t", "\n"}

RECURSIVE lstrip(_)
lstrip(s) ==
    IF s # <<>> /\ Head(s) \in Whitespace THEN lstrip(Tail(s)) ELSE s

RECURSIVE rstrip(_)
rstrip(s) ==
    IF s # <<>> /\ s[Len(s)] \in Whitespace
    THEN rstrip(SubSeq(s, 1, Len(s) - 1))
    ELSE s

\* str.strip(): surrounding whitespace removed
strip(s) == rstrip(lstrip(s))

Digits == <<"0", "1", "2", "3", "4", "5", "6", "7", "8", "9">>

IsDigit(c) == \E i \in 1..10 : Digits[i] = c

DigitVal(c) == (CHOOSE i \in 1..10 : Digits[i] = c) - 1

RECURSIVE DigitsValue(_)
DigitsValue(s) ==
    IF s = <<>> THEN 0
    ELSE 10 * DigitsValue(SubSeq(s, 1, Len(s) - 1)) + DigitVal(s[Len(s)])

\* int(text): surrounding whitespace, an optional sign, decimal digits;
\* anything else raises ValueError (ok = FALSE)
int(s) ==
    LET t == strip(s)
        signed == t # <<>> /\ Head(t) \in {"+", "-"}
        d == IF signed THEN Tail(t) ELSE t
    IN  IF d # <<>> /\ \A i \in 1..Len(d) : IsDigit(d[i])
        THEN [ok |-> TRUE,
              value |-> IF signed /\ Head(t) = "-" THEN 0 - DigitsValue(d)
                        ELSE DigitsValue(d)]
        ELSE [ok |-> FALSE, value |-> 0]

\* the fragments of s between occurrences of sep
RECURSIVE split(_, _, _)
split(s, sep, cur) ==
    IF s = <<>> THEN <<cur>>
    ELSE IF Head(s) = sep THEN <<cur>> \o split(Tail(s), sep, <<>>)
    ELSE split(Tail(s), sep, Append(cur, Head(s)))

\* the lines io.StringIO yields: a trailing newline opens no further line
StringIO(s) ==
    LET parts == split(s, "\n", <<>>)
    IN  IF parts[Len(parts)] = <<>> THEN SubSeq(parts, 1, Len(parts) - 1)
        ELSE parts

\* csv.reader(data, delimiter=','): one row per line, a blank line is the
\* empty row (the texts of the model hold no quote character)
csv_reader(s) ==
    LET lines == StringIO(s)
    IN  [i \in 1..Len(lines) |->
            IF lines[i] = <<>> THEN <<>> ELSE split(lines[i], ",", <<>>)]

---------------------------------------------------------------------------
(* bson.ObjectId *)

HexDigits == <<"0", "1", "2", "3", "4", "5", "6", "7", "8", "9",
               "a", "b", "c", "d", "e", "f">>

IsHex(c) == \E i \in 1..16 : HexDigits[i] = c

HexVal(c) == (CHOOSE i \in 1..16 : HexDigits[i] = c) - 1

RECURSIVE HexValue(_)
HexValue(s) ==
    IF s = <<>> THEN 0
    ELSE 16 * HexValue(SubSeq(s, 1, Len(s) - 1)) + HexVal(s[Len(s)])

RECURSIVE HexString(_, _)
HexString(n, width) ==
    IF width = 0 THEN <<>>
    ELSE Append(HexString(n \div 16, width - 1), HexDigits[(n % 16) + 1])

\* ObjectId(id): the id must be OidHexLen hex digits, else InvalidId is raised
ObjectId(id) ==
    IF Len(id) = OidHexLen /\ \A i \in 1..Len(id) : IsHex(id[i])
    THEN [valid |-> TRUE, value |-> HexValue(id)]
    ELSE [valid |-> FALSE, value |-> 0]

\* str(oid)
str(oid) == HexString(oid, OidHexLen)

---------------------------------------------------------------------------
(* Pydantic models *)

NomeMinLength == 3

\* UserCreate(nome=..., idade=...): TRUE iff validation passes.  The length
\* is that of the string as given: the model strips nothing.
UserCreate(nome, idade) == Len(nome) >= NomeMinLength /\ idade > 0

\* An Optional field is <<>> (None) or <<v>>.
None == <<>>

\* UserUpdate(nome=..., idade=...): TRUE iff validation passes
UserUpdate(nome, idade) ==
    /\ nome = None \/ Len(nome[1]) >= NomeMinLength
    /\ idade = None \/ idade[1] > 0

\* model_dump_exclude_none with exclude_none forgotten: every field is
\* dumped, an absent one as null (an empty nome, a zero idade)
model_dump(nome, idade) ==
    [f \in {"nome", "idade"} |->
        IF f = "nome" THEN (IF nome = None THEN <<>> ELSE nome[1])
        ELSE (IF idade = None THEN 0 ELSE idade[1])]

\* user_update.model_dump(exclude_none=True): the supplied fields only
model_dump_exclude_none(nome, idade) ==
    [f \in {g \in {"nome", "idade"} :
                (g = "nome" /\ nome # None) \/ (g = "idade" /\ idade # None)} |->
        IF f = "nome" THEN nome[1] ELSE idade[1]]

---------------------------------------------------------------------------
(* The collection: what the handlers ask of motor/MongoDB *)

Document(oid, nome, idade) == [_id |-> oid, nome |-> nome, idade |-> idade]

\* NewObjectId drawing the first identifier the collection does not hold
FirstFreeObjectId(coll, counter) ==
    CHOOSE n \in 1..(Len(coll) + 1) :
        /\ \A i \in 1..Len(coll) : coll[i]._id # n
        /\ \A m \in 1..(n - 1) : \E i \in 1..Len(coll) : coll[i]._id = m

\* the ObjectId the driver generates for a document inserted without _id:
\* never one it generated before
NewObjectId(coll, counter) == counter

\* insert_one(user_data)
insert_one(coll, counter, user_data) ==
    LET oid == NewObjectId(coll, counter)
    IN  [docs |-> Append(coll, Document(oid, user_data.nome, user_data.idade)),
         oid_counter |-> counter + 1,
         inserted_id |-> oid]

\* insert_many(users_to_insert): one document per element, in order
RECURSIVE insert_many(_, _, _)
insert_many(coll, counter, users_to_insert) ==
    IF users_to_insert = <<>>
    THEN [docs |-> coll, oid_counter |-> counter, inserted_ids |-> <<>>]
    ELSE LET one == insert_one(coll, counter, Head(users_to_insert))
             rest == insert_many(one.docs, one.oid_counter, Tail(users_to_insert))
         IN  [docs |-> rest.docs,
              oid_counter |-> rest.oid_counter,
              inserted_ids |-> <<one.inserted_id>> \o rest.inserted_ids]

\* find_one({"_id": oid}): <<>> (None) or <<document>>
find_one(coll, oid) ==
    LET hits == SelectSeq(coll, LAMBDA d : d._id = oid)
    IN  IF hits = <<>> THEN None ELSE <<Head(hits)>>

\* set_fields replacing the document: a field not supplied is reset
replace_fields(d, update_data) ==
    [f \in DOMAIN d |->
        IF f \in DOMAIN update_data THEN update_data[f]
        ELSE IF f = "_id" THEN d[f]
        ELSE IF f = "nome" THEN <<>>
        ELSE 0]

\* {"$set": update_data} applied to one document
set_fields(d, update_data) ==
    [f \in DOMAIN d |-> IF f \in DOMAIN update_data THEN update_data[f] ELSE d[f]]

\* update_one({"_id": oid}, {"$set": update_data}): modified_count counts the
\* documents whose content changed, not the documents matched
update_one(coll, oid, update_data) ==
    LET hit == {i \in 1..Len(coll) : coll[i]._id = oid}
        new == [i \in 1..Len(coll) |->
                   IF i \in hit THEN set_fields(coll[i], update_data) ELSE coll[i]]
    IN  [docs |-> new,
         matched_count |-> Cardinality(hit),
         modified_count |-> Cardinality({i \in hit : new[i] # coll[i]})]

\* delete_one({"_id": oid})
delete_one(coll, oid) ==
    LET rest == SelectSeq(coll, LAMBDA d : d._id # oid)
    IN  [docs |-> rest, deleted_count |-> Len(coll) - Len(rest)]

\* serialize popping _id without storing its string form
serialize_without_id(d) == [id |-> <<>>, nome |-> d.nome, idade |-> d.idade]

\* document['id'] = str(document.pop('_id'))
serialize(d) == [id |-> str(d._id), nome |-> d.nome, idade |-> d.idade]

---------------------------------------------------------------------------
(* The inputs clients send *)

\* 'Bo': too short
NameBo == <<"B", "o">>

\* 'Ana'
NameAna == <<"A", "n", "a">>

\* ' Bo': three characters as sent, two once stripped
NamePadded == <<" ", "B", "o">>

Names == {NameBo, NameAna, NamePadded}

Ages == 0..2

\* ''
TextEmpty ==
    <<>>

\* 'Ana,1'
TextOne ==
    <<"A", "n", "a", ",", "1">>

\* 'Ana,1\nBo,x\n Ana , 2 '
TextExample ==
    <<"A", "n", "a", ",", "1", "\n", "B", "o", ",", "x", "\n", " ", "A", "n", "a", " ", ",", " ", "2", " ">>

\* 'Bo,x'
TextBadAge ==
    <<"B", "o", ",", "x">>

\* 'Ana\nAna,1,2'
TextNoPairs ==
    <<"A", "n", "a", "\n", "A", "n", "a", ",", "1", ",", "2">>

\* 'Ana,1\nAna'
TextPairAndShort ==
    <<"A", "n", "a", ",", "1", "\n", "A", "n", "a">>

\* 'Ana,-1'
TextNegativeAge ==
    <<"A", "n", "a", ",", "-", "1">>

\* ' Bo ,1'
TextShortName ==
    <<" ", "B", "o", " ", ",", "1">>

\* 'Ana,1\n\nAna,2\n'
TextBlankLine ==
    <<"A", "n", "a", ",", "1", "\n", "\n", "A", "n", "a", ",", "2", "\n">>

Texts ==
    {TextEmpty,
     TextOne,
     TextExample,
     TextBadAge,
     TextNoPairs,
     TextPairAndShort,
     TextNegativeAge,
     TextShortName,
     TextBlankLine}

\* identifiers in the path: every ObjectId the driver may generate, in its
\* string form, a string of the right length that is not hex, and a hex
\* string that is one digit short
IdNotHex == [i \in 1..OidHexLen |-> "z"]

IdTooShort == [i \in 1..(OidHexLen - 1) |-> "0"]

IdInputs == {str(n) : n \in 1..MaxIds} \cup {IdNotHex, IdTooShort}

Optional(S) == {None} \cup {<<v>> : v \in S}

Request(op, id, nome, idade, text) ==
    [op |-> op, id |-> id, nome |-> nome, idade |-> idade, text |-> text]

Response(op, status, detail, body, inserted_count, calls) ==
    [op |-> op, status |-> status, detail |-> detail, body |-> body,
     inserted_count |-> inserted_count, calls |-> calls]

---------------------------------------------------------------------------
(* The handlers.  A handler's outcome is the collection it leaves and the   *)
(* response it sends; `suspended` marks a handler that has written and     *)
(* awaits its re-fetch of `user_id`.                                       *)

Outcome(coll, counter, resp) ==
    [docs |-> coll, oid_counter |-> counter, suspended |-> FALSE,
     user_id |-> 0, response |-> resp]

Suspended(coll, counter, op, oid) ==
    [docs |-> coll, oid_counter |-> counter, suspended |-> TRUE,
     user_id |-> oid, response |-> Response(op, 0, "", <<>>, 0, 1)]

\* check_db_connection(): TRUE when it returns, FALSE when it raises 503
check_db_connection(handle) == handle # "None"

ServiceUnavailable(op) ==
    Response(op, 503, "Servico de Banco de Dados Indisponivel", <<>>, 0, 0)

\* FastAPI answers a body that fails its pydantic model before the handler runs
RequestValidationError(op) ==
    Response(op, 422, "RequestValidationError", <<>>, 0, 0)

\* InvalidId answering as a record that is not there
InvalidIdAsNotFound(op) == Response(op, 404, "Usuario nao encontrado", <<>>, 0, 0)

InvalidId(op) == Response(op, 400, "ID invalido", <<>>, 0, 0)

NotFound(op) == Response(op, 404, "Usuario nao encontrado", <<>>, 0, 1)

\* an exception no handler catches: Starlette answers 500
InternalServerError(op, exception, calls) ==
    Response(op, 500, exception, <<>>, 0, calls)

\* create_user up to its first await: the insert
create_user_insert(coll, counter, handle, nome, idade) ==
    IF ~UserCreate(nome, idade) THEN Outcome(coll, counter, RequestValidationError("create"))
    ELSE IF ~check_db_connection(handle) THEN Outcome(coll, counter, ServiceUnavailable("create"))
    ELSE LET insert_result == insert_one(coll, counter, [nome |-> nome, idade |-> idade])
         IN  Suspended(insert_result.docs, insert_result.oid_counter, "create",
                       insert_result.inserted_id)

\* create_user from its re-fetch on: created_user.pop('_id') on None raises
create_user_fetch(coll, inserted_id) ==
    LET created_user == find_one(coll, inserted_id)
    IN  IF created_user = None
        THEN InternalServerError("create", "AttributeError", 2)
        ELSE Response("create", 201, "", <<serialize(created_user[1])>>, 0, 2)

\* list_users
list_users(coll, handle) ==
    IF ~check_db_connection(handle) THEN ServiceUnavailable("list")
    ELSE Response("list", 200, "", [i \in 1..Len(coll) |-> serialize(coll[i])], 0, 1)

\* get_user
get_user(coll, handle, id) ==
    IF ~check_db_connection(handle) THEN ServiceUnavailable("get")
    ELSE LET user_id == ObjectId(id)
         IN  IF ~user_id.valid THEN InvalidId("get")
             ELSE LET user_document == find_one(coll, user_id.value)
                  IN  IF user_document # None
                      THEN Response("get", 200, "", <<serialize(user_document[1])>>, 0, 1)
                      ELSE NotFound("get")

\* update_user up to its second await: the update
update_user_write(coll, counter, handle, id, nome, idade) ==
    IF ~UserUpdate(nome, idade) THEN Outcome(coll, counter, RequestValidationError("update"))
    ELSE IF ~check_db_connection(handle) THEN Outcome(coll, counter, ServiceUnavailable("update"))
    ELSE LET user_id == ObjectId(id)
             update_data == model_dump_exclude_none(nome, idade)
         IN  IF ~user_id.valid THEN Outcome(coll, counter, InvalidId("update"))
             ELSE IF DOMAIN update_data = {}
             THEN Outcome(coll, counter,
                     Response("update", 400, "Nenhum campo para atualizacao fornecido",
                              <<>>, 0, 0))
             ELSE LET update_result == update_one(coll, user_id.value, update_data)
                  IN  IF update_result.modified_count = 1
                      THEN Suspended(update_result.docs, counter, "update", user_id.value)
                      ELSE Outcome(update_result.docs, counter, NotFound("update"))

\* update_user from its re-fetch on
update_user_fetch(coll, user_id) ==
    LET updated_document == find_one(coll, user_id)
    IN  IF updated_document = None
        THEN InternalServerError("update", "AttributeError", 2)
        ELSE Response("update", 200, "", <<serialize(updated_document[1])>>, 0, 2)

\* delete_user
delete_user(coll, counter, handle, id) ==
    IF ~check_db_connection(handle) THEN Outcome(coll, counter, ServiceUnavailable("delete"))
    ELSE LET user_id == ObjectId(id)
         IN  IF ~user_id.valid THEN Outcome(coll, counter, InvalidId("delete"))
             ELSE LET delete_result == delete_one(coll, user_id.value)
                  IN  IF delete_result.deleted_count = 1
                      THEN Outcome(delete_result.docs, counter,
                                   Response("delete", 204, "", <<>>, 0, 1))
                      ELSE Outcome(delete_result.docs, counter, NotFound("delete"))

\* the loop over the rows: a row of two fields is converted and validated,
\* and the first one that fails raises out of the loop
RECURSIVE read_rows(_, _)
read_rows(rows, users_to_insert) ==
    IF rows = <<>> THEN [raised |-> "", users_to_insert |-> users_to_insert]
    ELSE LET row == Head(rows)
         IN  IF Len(row) = 2
             THEN LET nome == strip(row[1])
                      idade == int(strip(row[2]))
                  IN  IF ~idade.ok
                      THEN [raised |-> "ValueError", users_to_insert |-> users_to_insert]
                      ELSE IF ~UserCreate(nome, idade.value)
                      THEN [raised |-> "ValidationError",
                            users_to_insert |-> users_to_insert]
                      ELSE read_rows(Tail(rows),
                             Append(users_to_insert,
                                    [nome |-> nome, idade |-> idade.value]))
             ELSE read_rows(Tail(rows), users_to_insert)

\* upload_users: every exception raised inside the try, the HTTPException(400)
\* of the empty list included, is caught by `except Exception` and answered 500
upload_users(coll, counter, handle, text) ==
    IF ~check_db_connection(handle) THEN Outcome(coll, counter, ServiceUnavailable("upload"))
    ELSE LET read == read_rows(csv_reader(text), <<>>)
         IN  IF read.raised # ""
             THEN Outcome(coll, counter, InternalServerError("upload", read.raised, 0))
             ELSE IF read.users_to_insert = <<>>
             THEN Outcome(coll, counter, InternalServerError("upload", "HTTPException 400", 0))
             ELSE LET result == insert_many(coll, counter, read.users_to_insert)
                  IN  Outcome(result.docs, result.oid_counter,
                              Response("upload", 201, "", <<>>,
                                       Len(result.inserted_ids), 1))

---------------------------------------------------------------------------
(* The service *)

NoRequest == Request("none", <<>>, None, None, <<>>)

NoResponse == Response("none", 0, "", <<>>, 0, 0)

Idle == [op |-> "idle", user_id |-> 0]

\* the _id values present in a collection
ids(coll) == {coll[i]._id : i \in 1..Len(coll)}

\* The service after startup_db_client has run: a failed startup raises
\* RuntimeError and no request is served.
Init ==
    /\ users_collection = "Collection"
    /\ docs = <<>>
    /\ oid_counter = 1
    /\ request = NoRequest
    /\ response = NoResponse
    /\ pending = [slot \in 1..MaxPending |-> Idle]
    /\ created_ok = 0
    /\ deleted_ok = 0
    /\ uploaded = 0
    /\ deleted_ids = {}
    /\ prev_docs = <<>>

\* POST /users/ served without interruption
CreateUser ==
    \E nome \in Names, idade \in Ages :
        \E w \in {create_user_insert(docs, oid_counter, users_collection, nome, idade)} :
            /\ w.oid_counter <= MaxIds + 1
            /\ request' = Request("create", <<>>, <<nome>>, <<idade>>, <<>>)
            /\ docs' = w.docs
            /\ oid_counter' = w.oid_counter
            /\ response' = IF w.suspended THEN create_user_fetch(w.docs, w.user_id)
                           ELSE w.response
            /\ created_ok' = created_ok + (IF response'.status = 201 THEN 1 ELSE 0)
            /\ prev_docs' = docs
            /\ UNCHANGED <<users_collection, pending, deleted_ok, uploaded, deleted_ids>>

\* GET /users/
ListUsers ==
    /\ request' = Request("list", <<>>, None, None, <<>>)
    /\ response' = list_users(docs, users_collection)
    /\ prev_docs' = docs
    /\ UNCHANGED <<users_collection, docs, oid_counter, pending,
                   created_ok, deleted_ok, uploaded, deleted_ids>>

\* GET /users/{id}
GetUser ==
    \E id \in IdInputs :
        /\ request' = Request("get", id, None, None, <<>>)
        /\ response' = get_user(docs, users_collection, id)
        /\ prev_docs' = docs
        /\ UNCHANGED <<users_collection, docs, oid_counter, pending,
                       created_ok, deleted_ok, uploaded, deleted_ids>>

\* PUT /users/{id} served without interruption
UpdateUser ==
    \E id \in IdInputs, nome \in Optional(Names), idade \in Optional(Ages) :
        \E w \in {update_user_write(docs, oid_counter, users_collection, id, nome, idade)} :
            /\ request' = Request("update", id, nome, idade, <<>>)
            /\ docs' = w.docs
            /\ response' = IF w.suspended THEN update_user_fetch(w.docs, w.user_id)
                           ELSE w.response
            /\ prev_docs' = docs
            /\ UNCHANGED <<users_collection, oid_counter, pending,
                           created_ok, deleted_ok, uploaded, deleted_ids>>

\* DELETE /users/{id}
DeleteUser ==
    \E id \in IdInputs :
        \E out \in {delete_user(docs, oid_counter, users_collection, id)} :
            /\ request' = Request("delete", id, None, None, <<>>)
            /\ docs' = out.docs
            /\ deleted_ids' = deleted_ids \cup (ids(docs) \ ids(out.docs))
            /\ prev_docs' = docs
            /\ response' = out.response
            /\ deleted_ok' = deleted_ok + (IF out.response.status = 204 THEN 1 ELSE 0)
            /\ UNCHANGED <<users_collection, oid_counter, pending, created_ok, uploaded>>

\* POST /users/upload/
UploadUsers ==
    \E text \in Texts :
        \E out \in {upload_users(docs, oid_counter, users_collection, text)} :
            /\ out.oid_counter <= MaxIds + 1
            /\ request' = Request("upload", <<>>, None, None, text)
            /\ docs' = out.docs
            /\ oid_counter' = out.oid_counter
            /\ response' = out.response
            /\ uploaded' = uploaded + out.response.inserted_count
            /\ prev_docs' = docs
            /\ UNCHANGED <<users_collection, pending, created_ok, deleted_ok, deleted_ids>>

\* Requests served one at a time, each handler running to its response.
Next ==
    \/ CreateUser
    \/ ListUsers
    \/ GetUser
    \/ UpdateUser
    \/ DeleteUser
    \/ UploadUsers

Spec == Init /\ [][Next]_vars

---------------------------------------------------------------------------
(* Requests served concurrently: create_user and update_user yield to the  *)
(* event loop at the await between their write and their re-fetch, and     *)
(* any other handler may run there.                                        *)

FreeSlots == {slot \in 1..MaxPending : pending[slot] = Idle}

\* POST /users/ up to the await of find_one
CreateUserInsert ==
    \E nome \in Names, idade \in Ages :
        \E w \in {create_user_insert(docs, oid_counter, users_collection, nome, idade)} :
            /\ w.oid_counter <= MaxIds + 1
            /\ request' = Request("create", <<>>, <<nome>>, <<idade>>, <<>>)
            /\ docs' = w.docs
            /\ oid_counter' = w.oid_counter
            /\ IF w.suspended
               THEN /\ FreeSlots # {}
                    /\ pending' = [pending EXCEPT ![CHOOSE slot \in FreeSlots : TRUE] =
                                      [op |-> "create", user_id |-> w.user_id]]
                    /\ UNCHANGED response
               ELSE /\ response' = w.response
                    /\ UNCHANGED pending
            /\ prev_docs' = docs
            /\ UNCHANGED <<users_collection, created_ok, deleted_ok, uploaded, deleted_ids>>

\* POST /users/ from find_one on
CreateUserFetch ==
    \E slot \in 1..MaxPending :
        /\ pending[slot].op = "create"
        /\ response' = create_user_fetch(docs, pending[slot].user_id)
        /\ created_ok' = created_ok + (IF response'.status = 201 THEN 1 ELSE 0)
        /\ pending' = [pending EXCEPT ![slot] = Idle]
        /\ prev_docs' = docs
        /\ UNCHANGED <<users_collection, docs, oid_counter, request, deleted_ok, uploaded, deleted_ids>>

\* PUT /users/{id} up to the await of find_one
UpdateUserWrite ==
    \E id \in IdInputs, nome \in Optional(Names), idade \in Optional(Ages) :
        \E w \in {update_user_write(docs, oid_counter, users_collection, id, nome, idade)} :
            /\ request' = Request("update", id, nome, idade, <<>>)
            /\ docs' = w.docs
            /\ IF w.suspended
               THEN /\ FreeSlots # {}
                    /\ pending' = [pending EXCEPT ![CHOOSE slot \in FreeSlots : TRUE] =
                                      [op |-> "update", user_id |-> w.user_id]]
                    /\ UNCHANGED response
               ELSE /\ response' = w.response
                    /\ UNCHANGED pending
            /\ prev_docs' = docs
            /\ UNCHANGED <<users_collection, oid_counter, created_ok, deleted_ok, uploaded, deleted_ids>>

\* PUT /users/{id} from find_one on
UpdateUserFetch ==
    \E slot \in 1..MaxPending :
        /\ pending[slot].op = "update"
        /\ response' = update_user_fetch(docs, pending[slot].user_id)
        /\ pending' = [pending EXCEPT ![slot] = Idle]
        /\ prev_docs' = docs
        /\ UNCHANGED <<users_collection, docs, oid_counter, request,
                       created_ok, deleted_ok, uploaded, deleted_ids>>

ConcNext ==
    \/ CreateUserInsert
    \/ CreateUserFetch
    \/ UpdateUserWrite
    \/ UpdateUserFetch
    \/ ListUsers
    \/ GetUser
    \/ DeleteUser
    \/ UploadUsers

ConcSpec == Init /\ [][ConcNext]_vars

---------------------------------------------------------------------------
(* The properties *)

\* The Record Validator as the specification words it: the name counts
\* once stripped, the age must parse and be positive.
RecordValid(nome, idade) ==
    /\ Len(strip(nome)) >= 3
    /\ int(idade).ok
    /\ int(idade).value > 0

\* The rows of two fields that pass the Record Validator, in row order
RECURSIVE ValidRows(_)
ValidRows(rows) ==
    IF rows = <<>> THEN <<>>
    ELSE LET row == Head(rows)
         IN  IF Len(row) = 2 /\ RecordValid(row[1], row[2])
             THEN <<[nome |-> strip(row[1]), idade |-> int(row[2]).value]>>
                      \o ValidRows(Tail(rows))
             ELSE ValidRows(Tail(rows))

\* C1: an upload whose text holds at least one valid row is answered 201,
\* appends exactly the valid rows, in row order, and reports their number;
\* invalid rows are skipped.
C1_InvalidRowsSkipped ==
    LET valid == ValidRows(csv_reader(request.text))
    IN  (request.op = "upload" /\ valid # <<>>) =>
            /\ response.status = 201
            /\ response.inserted_count = Len(valid)
            /\ Len(docs) = Len(prev_docs) + Len(valid)
            /\ SubSeq(docs, 1, Len(prev_docs)) = prev_docs
            /\ \A i \in 1..Len(valid) :
                  /\ docs[Len(prev_docs) + i].nome = valid[i].nome
                  /\ docs[Len(prev_docs) + i].idade = valid[i].idade

\* C2: an upload whose text holds no valid row is answered 400, issues no
\* insert and leaves the collection as it was.
C2_NoValidRowsIs400 ==
    (request.op = "upload" /\ ValidRows(csv_reader(request.text)) = <<>>) =>
        /\ response.status = 400
        /\ response.calls = 0
        /\ docs = prev_docs

\* C3: a create whose age is not positive, or whose name is shorter than 3
\* once stripped, is answered with a client error (the claim says 400; any
\* 4xx answer is let pass here) and persists nothing; so every record a
\* create persists has a stripped name of 3 or more and a positive age.
C3_CreateRejectsInvalid ==
    request.op = "create" =>
        /\ (request.idade[1] <= 0 \/ Len(strip(request.nome[1])) < 3) =>
               (response.status \in 400..499 /\ docs = prev_docs)
        /\ \A i \in 1..Len(docs) :
               docs[i]._id \notin ids(prev_docs) =>
                   (Len(strip(docs[i].nome)) >= 3 /\ docs[i].idade > 0)

\* the request is an update with a well-formed identifier and a valid,
\* non-empty field set
WellFormedUpdate ==
    /\ request.op = "update"
    /\ ObjectId(request.id).valid
    /\ UserUpdate(request.nome, request.idade)
    /\ ~(request.nome = None /\ request.idade = None)

\* C4: such an update is answered 404 exactly when the collection holds no
\* record with that identifier; when it holds one, whatever the values
\* supplied, it is answered 200 with the re-fetched record.
C4_UpdateFoundIffExists ==
    LET oid == ObjectId(request.id).value
    IN  WellFormedUpdate =>
            /\ response.status = 404 <=> oid \notin ids(prev_docs)
            /\ oid \in ids(prev_docs) =>
                   /\ response.status = 200
                   /\ response.body = <<serialize(find_one(docs, oid)[1])>>

\* C5: a create with a valid name and age is answered 201 with a non-empty
\* identifier and the name and age sent; no request other than an update or
\* delete of a record touches it; and a get of a stored record's identifier
\* returns that record.  Hence a get issued after the create, with no update
\* or delete of the record in between, returns the name and age sent.
C5_CreateThenGet ==
    /\ (/\ request.op = "create"
        /\ Len(strip(request.nome[1])) >= 3
        /\ request.idade[1] > 0) =>
            /\ response.status = 201
            /\ Len(response.body) = 1
            /\ response.body[1].id # <<>>
            /\ response.body[1].nome = request.nome[1]
            /\ response.body[1].idade = request.idade[1]
            /\ get_user(docs, users_collection, response.body[1].id) =
                   Response("get", 200, "", response.body, 0, 1)
    /\ \A i \in 1..Len(prev_docs) :
            (request.op \notin {"update", "delete"}
                \/ ObjectId(request.id).value # prev_docs[i]._id) =>
                    \E j \in 1..Len(docs) : docs[j] = prev_docs[i]
    /\ \A i \in 1..Len(docs) :
            (request.op = "get" /\ request.id = str(docs[i]._id)) =>
                /\ response.status = 200
                /\ response.body = <<serialize(docs[i])>>

\* a get that returned a record put there by a create
C5_Witness ==
    /\ request.op = "get"
    /\ response.status = 200
    /\ response.body[1].nome = NameAna
    /\ created_ok > 0
    /\ uploaded = 0

\* C6: an update that supplies no field is answered 400 whether or not the
\* identifier names a record, issues no store operation and leaves the
\* collection as it was.
C6_EmptyUpdateIs400 ==
    (request.op = "update" /\ request.nome = None /\ request.idade = None) =>
        /\ response.status = 400
        /\ response.calls = 0
        /\ docs = prev_docs

\* an empty update of a record that exists
C6_Witness ==
    /\ request.op = "update"
    /\ request.nome = None
    /\ request.idade = None
    /\ ObjectId(request.id).valid
    /\ ObjectId(request.id).value \in ids(docs)
    /\ response.status = 400

\* C7: identifiers are pairwise distinct, the identifier of a deleted record
\* is never in the collection again, and without uploads the collection, and
\* the list returned, hold as many records as creates succeeded less deletes
\* succeeded, with pairwise distinct identifiers.
C7_ListCountsAndDistinctIds ==
    /\ Cardinality(ids(docs)) = Len(docs)
    /\ ids(docs) \cap deleted_ids = {}
    /\ uploaded = 0 => Len(docs) = created_ok - deleted_ok
    /\ (request.op = "list" /\ uploaded = 0 /\ created_ok > deleted_ok) =>
            /\ response.status = 200
            /\ Len(response.body) = created_ok - deleted_ok
            /\ Cardinality({response.body[i].id : i \in 1..Len(response.body)})
                   = Len(response.body)

\* a list after two creates and one delete
C7_Witness ==
    /\ request.op = "list"
    /\ uploaded = 0
    /\ created_ok = 2
    /\ deleted_ok = 1
    /\ Len(response.body) = 1

\* C8: an update of an existing record changes the supplied fields of that
\* record and nothing else: its other field and every other record are as
\* before, a get of it returns the new content, and so does the update's own
\* 200 response.
C8_UpdateChangesOnlySupplied ==
    LET oid == ObjectId(request.id).value
    IN  (WellFormedUpdate /\ oid \in ids(prev_docs)) =>
            /\ Len(docs) = Len(prev_docs)
            /\ \A i \in 1..Len(prev_docs) :
                  IF prev_docs[i]._id = oid
                  THEN /\ docs[i]._id = oid
                       /\ docs[i].nome = IF request.nome = None THEN prev_docs[i].nome
                                         ELSE request.nome[1]
                       /\ docs[i].idade = IF request.idade = None THEN prev_docs[i].idade
                                          ELSE request.idade[1]
                       /\ get_user(docs, users_collection, request.id).body
                              = <<serialize(docs[i])>>
                       /\ response.status = 200 =>
                              response.body = <<serialize(docs[i])>>
                  ELSE docs[i] = prev_docs[i]

\* an age-only update that changed the age of one of two records
C8_Witness ==
    /\ request.op = "update"
    /\ request.nome = None
    /\ request.idade = <<2>>
    /\ response.status = 200
    /\ response.body[1].idade = 2
    /\ Len(docs) = 2
    /\ docs # prev_docs

\* the request is a get, update or delete whose identifier is malformed
MalformedId ==
    /\ request.op \in {"get", "update", "delete"}
    /\ ~ObjectId(request.id).valid

C10_RefetchNeverAbsent ==
    (response.op \in {"create", "update"} /\ response.calls = 2) =>
        /\ response.status \in {200, 201}
        /\ Len(response.body) = 1

====
